---------------------------- MODULE Spec2Model ----------------------------
(***************************************************************************)
(* HistoMapGeoref: scripts/extract_blue_contours.py and                    *)
(* scripts/pick_gcps_qt.py.                                                *)
(*                                                                         *)
(* The raster -> vector pipeline of main(), its pure helpers               *)
(* (normalize_rgb, threshold_blue_hsv, to_lines, save_geojson) and the     *)
(* library calls it makes, each modelled by what the call does; and the    *)
(* event handlers of the interactive GCP editor.                           *)
(*                                                                         *)
(* Units.  Contour vertices produced by find_contours on a 0/1 mask at     *)
(* level 0.5 lie on half-pixel positions, and to_lines shifts them by the  *)
(* pixel-centre offset 0.5.  To keep the arithmetic exact in the integers, *)
(* every pixel-space and geographic coordinate of the model is stored in   *)
(* HALF units: a stored 3 is the value 1.5.  Colour channels, hue,         *)
(* saturation and value are exact fractions kept as numerator/denominator. *)
(***************************************************************************)
EXTENDS Integers, Sequences, FiniteSets, TLC

VARIABLES
    \* ---- to_lines(contours, ds, step, simplify_tol): its locals
    contours,     \* the list of pixel-space contours handed to to_lines
    tf,           \* ds.transform: the six affine coefficients
    argStep,      \* the step the caller supplied (args.step, or the direct argument)
    argTol,       \* the tolerance the caller supplied
    step,         \* to_lines' parameter step
    simplify_tol, \* to_lines' parameter simplify_tol
    idx,          \* number of contours the for loop has consumed
    arr,          \* local arr: the loop variable, thinned at line 105
    line,         \* local line: the last LineString built
    features,     \* local features: the list being returned
    lstate,       \* "idle" | "loop" | "returned" | "raised"
    \* ---- main(): its position, its locals, and what it leaves behind
    pc,           \* the statement main is at
    exists,       \* os.path.exists(args.geotiff)
    count,        \* ds.count while the dataset is open, 0 while it is closed
    debug_dir,    \* args.debug_dir is given
    rgb,          \* local rgb: the normalised image, pixel -> [r, g, b, den]
    thr,          \* args.h_min, h_max, s_min, v_min, blur
    mask0,        \* the mask as threshold_blue_hsv returned it
    mask,         \* local mask
    morph,        \* args.min_size, open_r, close_r
    lines,        \* local lines: what save_geojson is given
    guidance,     \* the parameter-tuning guidance has been printed
    out_path,     \* args.out_geojson, once save_geojson has read it
    outFile,      \* the feature collection file: "absent", or its features
    debugRgb,     \* debug_rgb_preview.png has been written
    debugMask,    \* debug_blue_mask.png has been written
    \* ---- normalize_rgb's inner _norm(x) on one band
    band,         \* x: the raw samples
    normed,       \* the returned band: "none", or [num, den]
    \* ---- scripts/pick_gcps_qt.py, main(): the GCP editor session
    gpc,          \* the statement main is at, "show" while the event loop runs
    gcps,         \* local gcps: the list of [pixel, lonlat] records
    out_json,     \* local out_json: the path S writes to
    saved,        \* json.dump has written the list to a file in this session
    console       \* the last message printed or shown in a message box

lvars == <<contours, tf, argStep, argTol, step, simplify_tol, idx, arr, line,
           features, lstate>>

mvars == <<pc, exists, count, debug_dir, rgb, thr, mask0, mask, morph, lines,
           guidance, out_path, outFile, debugRgb, debugMask>>

nvars == <<band, normed>>

gvars == <<gpc, gcps, out_json, saved, console>>

vars == <<lvars, mvars, nvars, gvars>>

----------------------------------------------------------------------------
(* Bounds of the model.                                                    *)
MaxVerts == 5
MaxContours == 2
MaxStep == 4
MaxRow == 2
MaxCol == 2
MaxBands == 4
MaxMinSize == 2
MaxRadius == 1
MaxLevel == 10
MaxBandLen == 2

Max(x, y) == IF x >= y THEN x ELSE y
Min(x, y) == IF x <= y THEN x ELSE y
Abs(x) == IF x < 0 THEN -x ELSE x

----------------------------------------------------------------------------
(* Contours as find_contours traces them around 0/1 masks (half units,     *)
(* <<row, col>>): the diamond around one isolated pixel, which closes on   *)
(* its fifth vertex, and an open staircase along a diagonal mask edge.     *)
LoopVertex(i) ==
    CASE (i - 1) % 4 = 0 -> <<2, 1>>
      [] (i - 1) % 4 = 1 -> <<1, 2>>
      [] (i - 1) % 4 = 2 -> <<2, 3>>
      [] OTHER           -> <<3, 2>>

StairVertex(i) ==
    IF i % 2 = 0 THEN <<(i \div 2) + 1, 3 * (i \div 2)>>
                 ELSE <<(i \div 2) + 1, 3 * (i \div 2) + 2>>

ContourOf(shape, n) ==
    [i \in 1..n |-> IF shape = "loop" THEN LoopVertex(i) ELSE StairVertex(i)]

Shapes == {"loop", "stair"}

\* every contour a caller may hand to to_lines, the degenerate ones included
AnyContours == {ContourOf(s, n) : s \in Shapes, n \in 0..MaxVerts}

\* what find_contours returns: every contour has at least 2 vertices
TracedContours == {c \in AnyContours : Len(c) >= 2}

ListsOf(S, k) == UNION {[1..n -> S] : n \in 0..k}

Steps == -1..MaxStep
\* tolerances in geographic units: negative, off, below and above the
\* half-pixel excursions of the contours above
SimplifyTols == {-1, 0, 1, 3}

\* rasterio Affine(a, b, c, d, e, f): a north-up raster and a rotated one
Transforms ==
    { [a |-> 2, b |-> 0, c |-> 100, d |-> 0, e |-> -2, f |-> 40],
      [a |-> 1, b |-> 3, c |-> -7, d |-> -2, e |-> 1, f |-> 5] }

----------------------------------------------------------------------------
(* to_lines, line 105: arr[::k] keeps the rows 0, k, 2k, ... of arr.       *)
StrideMut(s) == Max(2, s)
Stride(s) == Max(1, s)

SliceStep(a, k) ==
    [j \in 1..((Len(a) + k - 1) \div k) |-> a[(j - 1) * k + 1]]

ThinMut(a, s) == SliceStep(a, Stride(s) + 1)
Thin(a, s) == SliceStep(a, Stride(s))

(* to_lines, lines 106-108: rasterio.transform.xy(transform, rows, cols,   *)
(* offset='center') is transform * (col + 0.5, row + 0.5).  In half units: *)
(* 2x = a*(2col + 1) + b*(2row + 1) + 2c.                                  *)
XYMut(t, v) ==
    << t.a * v[2] + t.b * v[1] + 2 * t.c,
       t.d * v[2] + t.e * v[1] + 2 * t.f >>
XY(t, v) ==
    << t.a * (v[2] + 1) + t.b * (v[1] + 1) + 2 * t.c,
       t.d * (v[2] + 1) + t.e * (v[1] + 1) + 2 * t.f >>

MapXY(t, a) == [j \in 1..Len(a) |-> XY(t, a[j])]

----------------------------------------------------------------------------
(* shapely: line.simplify(tol, preserve_topology=False) is GEOS'           *)
(* Douglas-Peucker line simplifier.  Distances are compared through their  *)
(* squares over the common denominator |b - a|^2 of one section.           *)
Sq(x) == x * x
Dot(u, v) == u[1] * v[1] + u[2] * v[2]
Sub(u, v) == <<u[1] - v[1], u[2] - v[2]>>
Cross(u, v) == u[1] * v[2] - u[2] * v[1]

\* denominator of the squared distances to segment a-b
SegDen(a, b) == IF a = b THEN 1 ELSE Dot(Sub(b, a), Sub(b, a))

\* numerator of the squared distance from p to segment a-b
SegNum(p, a, b) ==
    IF a = b THEN Dot(Sub(p, a), Sub(p, a))
    ELSE LET L2 == Dot(Sub(b, a), Sub(b, a))
             r  == Dot(Sub(p, a), Sub(b, a))
         IN  IF r <= 0 THEN Dot(Sub(p, a), Sub(p, a)) * L2
             ELSE IF r >= L2 THEN Dot(Sub(p, b), Sub(p, b)) * L2
             ELSE Sq(Cross(Sub(b, a), Sub(p, a)))

\* the first index strictly between i and j farthest from segment i-j
FarthestIndex(pts, i, j) ==
    LET num(k) == SegNum(pts[k], pts[i], pts[j])
    IN  CHOOSE k \in (i + 1)..(j - 1) :
            /\ \A m \in (i + 1)..(j - 1) : num(m) <= num(k)
            /\ \A m \in (i + 1)..(k - 1) : num(m) < num(k)

RECURSIVE SimplifySection(_, _, _, _)
\* the indices strictly between i and j that the simplifier keeps
SimplifySection(pts, i, j, tol2) ==
    IF i + 1 >= j THEN {}
    ELSE LET k == FarthestIndex(pts, i, j)
         IN  IF SegNum(pts[k], pts[i], pts[j]) <= Sq(tol2) * SegDen(pts[i], pts[j])
             THEN {}
             ELSE SimplifySection(pts, i, k, tol2) \cup {k}
                      \cup SimplifySection(pts, k, j, tol2)

RECURSIVE Pick(_, _, _)
\* the subsequence of pts at the indices of keep, from index i on
Pick(pts, keep, i) ==
    IF i > Len(pts) THEN <<>>
    ELSE IF i \in keep THEN <<pts[i]>> \o Pick(pts, keep, i + 1)
    ELSE Pick(pts, keep, i + 1)

\* tol is in geographic units, the coordinates in half units
SimplifyLine(pts, tol) ==
    IF Len(pts) <= 2 THEN pts
    ELSE Pick(pts, {1, Len(pts)} \cup SimplifySection(pts, 1, Len(pts), 2 * tol), 1)

\* to_lines, lines 110-111
SimplifyOn(tol) == tol # 0 /\ tol > 0

MaybeSimplify(pts, tol) == IF SimplifyOn(tol) THEN SimplifyLine(pts, tol) ELSE pts

\* shapely: LineString(coords) raises ValueError for exactly one coordinate
LineStringRaises(pts) == Len(pts) = 1

\* GEOS validity of a LineString: at least two distinct points
IsValid(pts) == \E i, j \in 1..Len(pts) : pts[i] # pts[j]
IsEmpty(pts) == Len(pts) = 0

\* to_lines, line 112
KeepLine(pts) == IsValid(pts) /\ ~IsEmpty(pts) /\ Len(pts) >= 2

----------------------------------------------------------------------------
(* to_lines called directly: the caller's values are the parameters.       *)
CallDirect ==
    /\ pc = "to_lines"
    /\ lstate = "idle"
    /\ step' = argStep
    /\ simplify_tol' = argTol
    /\ lstate' = "loop"
    /\ UNCHANGED <<contours, tf, argStep, argTol, idx, arr, line, features>>
    /\ UNCHANGED <<mvars, nvars, gvars>>

(* to_lines called as main calls it, line 216.                             *)
CallFromMain ==
    /\ pc = "to_lines"
    /\ lstate = "idle"
    /\ step' = Max(1, argStep)
    /\ simplify_tol' = Max(0, argTol)
    /\ lstate' = "loop"
    /\ UNCHANGED <<contours, tf, argStep, argTol, idx, arr, line, features>>
    /\ UNCHANGED <<mvars, nvars, gvars>>

(* One iteration of the for loop, lines 102-113.                           *)
\* lines 103-104: a contour of fewer than 2 vertices is skipped
SkipShort ==
    /\ lstate = "loop"
    /\ idx < Len(contours)
    /\ Len(contours[idx + 1]) < 2
    /\ arr' = contours[idx + 1]
    /\ idx' = idx + 1
    /\ UNCHANGED <<contours, tf, argStep, argTol, step, simplify_tol, line,
                   features, lstate>>
    /\ UNCHANGED <<mvars, nvars, gvars>>

\* line 109: the constructor raises; the exception leaves to_lines
LineRaises ==
    /\ lstate = "loop"
    /\ idx < Len(contours)
    /\ Len(contours[idx + 1]) >= 2
    /\ LET thinned == Thin(contours[idx + 1], step)
       IN  /\ LineStringRaises(MapXY(tf, thinned))
           /\ arr' = thinned
    /\ idx' = idx + 1
    /\ lstate' = "raised"
    /\ UNCHANGED <<contours, tf, argStep, argTol, step, simplify_tol, line,
                   features>>
    /\ UNCHANGED <<mvars, nvars, gvars>>

\* lines 105-113: thin, map, build, simplify, keep
AppendLine ==
    /\ lstate = "loop"
    /\ idx < Len(contours)
    /\ Len(contours[idx + 1]) >= 2
    /\ LET thinned == Thin(contours[idx + 1], step)
           built   == MapXY(tf, thinned)
           ln      == MaybeSimplify(built, simplify_tol)
       IN  /\ ~LineStringRaises(built)
           /\ KeepLine(ln)
           /\ arr' = thinned
           /\ line' = ln
           /\ features' = Append(features, ln)
    /\ idx' = idx + 1
    /\ UNCHANGED <<contours, tf, argStep, argTol, step, simplify_tol, lstate>>
    /\ UNCHANGED <<mvars, nvars, gvars>>

\* lines 105-112: thin, map, build, simplify, and the line is not kept
DropLine ==
    /\ lstate = "loop"
    /\ idx < Len(contours)
    /\ Len(contours[idx + 1]) >= 2
    /\ LET thinned == Thin(contours[idx + 1], step)
           built   == MapXY(tf, thinned)
           ln      == MaybeSimplify(built, simplify_tol)
       IN  /\ ~LineStringRaises(built)
           /\ ~KeepLine(ln)
           /\ arr' = thinned
           /\ line' = ln
    /\ idx' = idx + 1
    /\ UNCHANGED <<contours, tf, argStep, argTol, step, simplify_tol, features,
                   lstate>>
    /\ UNCHANGED <<mvars, nvars, gvars>>

\* line 114
ReturnFeatures ==
    /\ lstate = "loop"
    /\ idx = Len(contours)
    /\ lstate' = "returned"
    /\ UNCHANGED <<contours, tf, argStep, argTol, step, simplify_tol, idx, arr,
                   line, features>>
    /\ UNCHANGED <<mvars, nvars, gvars>>


----------------------------------------------------------------------------
(* Images.  A band or a mask is a function from its pixels <<row, col>>.   *)
Pix == (1..MaxRow) \X (1..MaxCol)

\* raw 8-bit samples of the scanned map: white paper and blue ink
Palette == {<<255, 255, 255>>, <<0, 0, 255>>}
Rasters == [Pix -> Palette]

RECURSIVE Gcd(_, _)
Gcd(x, y) == IF y = 0 THEN x ELSE Gcd(y, x % y)
Lcm(x, y) == (x * y) \div Gcd(x, y)

(* normalize_rgb, lines 57-65: _norm(x).  The float band x / d is kept as  *)
(* the numerators x over the denominator d.                                *)
BandMax(x) == CHOOSE m \in {x[p] : p \in DOMAIN x} : \A p \in DOMAIN x : x[p] <= m

Divisor(mx) ==
    IF mx = 0 THEN 1
    ELSE IF mx > 1 THEN (IF mx <= 255 THEN 255 ELSE mx)
    ELSE 1

norm(x) == [num |-> x, den |-> Divisor(BandMax(x))]

\* lines 55-66
normalize_rgb(r, g, b) == <<norm(r), norm(g), norm(b)>>

\* line 165: np.dstack, the three bands brought to one denominator
dstack(n) ==
    LET L == Lcm(n[1].den, Lcm(n[2].den, n[3].den))
    IN  [p \in DOMAIN n[1].num |->
            [r |-> n[1].num[p] * (L \div n[1].den),
             g |-> n[2].num[p] * (L \div n[2].den),
             b |-> n[3].num[p] * (L \div n[3].den),
             den |-> L]]

----------------------------------------------------------------------------
(* threshold_blue_hsv, lines 69-87.                                        *)

\* np.clip(rgb, 0, 1) of one channel over denominator den
Clip(x, den) == Min(Max(x, 0), den)

(* skimage rgb2hsv of one pixel, as exact fractions <<numerator,           *)
(* denominator>>: V = max; S = delta / V, 0 when delta = 0; H from the     *)
(* channel that is the maximum (blue, then green, then red decide a tie),  *)
(* divided by 6 and taken modulo 1, 0 when delta = 0.                      *)
rgb2hsv(px) ==
    LET r  == Clip(px.r, px.den)
        g  == Clip(px.g, px.den)
        b  == Clip(px.b, px.den)
        mx == Max(r, Max(g, b))
        mn == Min(r, Min(g, b))
        C  == mx - mn
    IN  [h |-> IF C = 0 THEN <<0, 1>>
               ELSE IF b = mx THEN <<(4 * C + (r - g)) % (6 * C), 6 * C>>
               ELSE IF g = mx THEN <<(2 * C + (b - r)) % (6 * C), 6 * C>>
               ELSE <<(g - b) % (6 * C), 6 * C>>,
         s |-> IF C = 0 THEN <<0, 1>> ELSE <<C, mx>>,
         v |-> <<mx, px.den>>]

\* x >= y and x <= y on fractions with positive denominators
Geq(x, y) == x[1] * y[2] >= y[1] * x[2]
Leq(x, y) == x[1] * y[2] <= y[1] * x[2]

(* skimage gaussian(rgb, sigma, multichannel=True, preserve_range=True):   *)
(* each channel is averaged with a normalised kernel over its              *)
(* neighbourhood, the border replicated.  An image of a single colour is a *)
(* fixed point, and the model blurs only such images.                      *)
gaussian(img, sigma) == img

\* lines 82-85: the predicate of one pixel
InMaskMut(c, t) ==
    /\ Geq(c.h, t.h_min) /\ Leq(c.h, t.h_max)
    /\ Geq(c.s, t.s_min) /\ Geq(c.v, t.v_min)
InMask(c, t) ==
    IF Leq(t.h_min, t.h_max)
    THEN /\ Geq(c.h, t.h_min) /\ Leq(c.h, t.h_max)
         /\ Geq(c.s, t.s_min) /\ Geq(c.v, t.v_min)
    ELSE /\ (Geq(c.h, t.h_min) \/ Leq(c.h, t.h_max))
         /\ Geq(c.s, t.s_min) /\ Geq(c.v, t.v_min)

threshold_blue_hsv(img, t) ==
    LET blurred == IF t.blur # 0 /\ t.blur > 0 THEN gaussian(img, t.blur) ELSE img
    IN  [p \in DOMAIN img |-> IF InMask(rgb2hsv(blurred[p]), t) THEN 1 ELSE 0]

\* the arguments' values the model draws
HueMins == {<<55, 100>>, <<9, 10>>}
HueMaxs == {<<75, 100>>, <<1, 10>>}
SatMins == {<<25, 100>>, <<1, 1>>}
ValMins == {<<15, 100>>, <<1, 2>>}

ThresholdArgs ==
    [h_min : HueMins, h_max : HueMaxs, s_min : SatMins, v_min : ValMins,
     blur : {0, 1}]

\* main on a raster of several colours: the argparse defaults and a range
\* that wraps, blur off
MainThresholdArgs ==
    { [h_min |-> <<55, 100>>, h_max |-> <<75, 100>>, s_min |-> <<25, 100>>,
       v_min |-> <<15, 100>>, blur |-> 0],
      [h_min |-> <<9, 10>>, h_max |-> <<1, 10>>, s_min |-> <<25, 100>>,
       v_min |-> <<15, 100>>, blur |-> 0] }

----------------------------------------------------------------------------
(* skimage.morphology on a boolean mask.                                   *)

\* disk(r): the offsets within distance r
disk(r) == {o \in (-r..r) \X (-r..r) : o[1] * o[1] + o[2] * o[2] <= r * r}

Shift(p, o) == <<p[1] + o[1], p[2] + o[2]>>

\* ndi.binary_erosion(..., border_value=True): outside the image counts as set
binary_erosion(m, r) ==
    [p \in DOMAIN m |->
        IF \A o \in disk(r) : Shift(p, o) \in DOMAIN m => m[Shift(p, o)] = 1
        THEN 1 ELSE 0]

\* ndi.binary_dilation: outside the image counts as clear
binary_dilation(m, r) ==
    [p \in DOMAIN m |->
        IF \E o \in disk(r) : Shift(p, o) \in DOMAIN m /\ m[Shift(p, o)] = 1
        THEN 1 ELSE 0]

binary_opening(m, r) == binary_dilation(binary_erosion(m, r), r)
binary_closing(m, r) == binary_erosion(binary_dilation(m, r), r)

(* remove_small_objects(ar, min_size) is called without connectivity, so   *)
(* with its default connectivity=1: ndi.label joins pixels that share an   *)
(* edge.                                                                   *)
AdjacentMut(p, q) ==
    /\ p # q
    /\ Abs(p[1] - q[1]) <= 1
    /\ Abs(p[2] - q[2]) <= 1
Adjacent(p, q) == Abs(p[1] - q[1]) + Abs(p[2] - q[2]) = 1

RECURSIVE Component(_, _)
\* the labelled component of the foreground fg that holds the pixels S
Component(fg, S) ==
    LET T == S \cup {q \in fg : \E p \in S : Adjacent(p, q)}
    IN  IF T = S THEN S ELSE Component(fg, T)

\* component_sizes < min_size are cleared
remove_small_objects(m, min_size) ==
    LET fg == {p \in DOMAIN m : m[p] = 1}
    IN  [p \in DOMAIN m |->
            IF m[p] = 1 /\ Cardinality(Component(fg, {p})) >= min_size
            THEN 1 ELSE 0]

\* main, lines 193-194
MinSizeStep(m, ms) == IF ms # 0 /\ ms > 0 THEN remove_small_objects(m, ms) ELSE m
\* main, lines 195-196
OpenStepMut(m, r) == IF r # 0 /\ r > 0 THEN binary_closing(m, r) ELSE m
OpenStep(m, r) == IF r # 0 /\ r > 0 THEN binary_opening(m, r) ELSE m
\* main, lines 197-198
CloseStep(m, r) == IF r # 0 /\ r > 0 THEN binary_closing(m, r) ELSE m

MorphArgs ==
    [min_size : 0..MaxMinSize, open_r : 0..MaxRadius, close_r : 0..MaxRadius]

(* trace_contours, lines 90-92: find_contours at level 0.5.  A mask of one *)
(* value has no crossing and yields no contour; any other mask yields at   *)
(* least one, and every contour it assembles has at least 2 vertices.      *)
(* Which contours a mask yields is left open: the model takes any          *)
(* non-empty list of traced contours.                                      *)
trace_contours(m) ==
    IF \A p, q \in DOMAIN m : m[p] = m[q] THEN {<<>>}
    ELSE ListsOf(TracedContours, MaxContours) \ {<<>>}

----------------------------------------------------------------------------
(* Values of the locals main has not assigned yet.                         *)
NoImage == <<>>
UnsetThr == [h_min |-> <<0, 1>>, h_max |-> <<0, 1>>, s_min |-> <<0, 1>>,
             v_min |-> <<0, 1>>, blur |-> 0]
UnsetMorph == [min_size |-> 0, open_r |-> 0, close_r |-> 0]
NoTransform == [a |-> 0, b |-> 0, c |-> 0, d |-> 0, e |-> 0, f |-> 0]
Absent == [written |-> FALSE, features |-> <<>>]
NotNormed == [done |-> FALSE, num |-> <<>>, den |-> 1]

\* line 159
BandsSufficientMut(n) == n >= 1
BandsSufficient(n) == ~(n < 3)

(* main, lines 154-155.                                                    *)
ExitNotFound ==
    /\ pc = "start"
    /\ ~exists
    /\ pc' = "exit"
    /\ UNCHANGED <<exists, count, debug_dir, rgb, thr, mask0, mask, morph, lines,
                   guidance, out_path, outFile, debugRgb, debugMask>>
    /\ UNCHANGED <<lvars, nvars, gvars>>

(* line 158: rasterio.open; the file has some number of bands.             *)
OpenRaster ==
    /\ pc = "start"
    /\ exists
    /\ \E n \in 1..MaxBands : count' = n
    /\ pc' = "opened"
    /\ UNCHANGED <<exists, debug_dir, rgb, thr, mask0, mask, morph, lines,
                   guidance, out_path, outFile, debugRgb, debugMask>>
    /\ UNCHANGED <<lvars, nvars, gvars>>

(* lines 159-160.                                                          *)
ExitTooFewBands ==
    /\ pc = "opened"
    /\ ~BandsSufficient(count)
    /\ pc' = "exit"
    /\ UNCHANGED <<exists, count, debug_dir, rgb, thr, mask0, mask, morph, lines,
                   guidance, out_path, outFile, debugRgb, debugMask>>
    /\ UNCHANGED <<lvars, nvars, gvars>>

(* lines 161-165: read bands 1-3, normalise, stack; the with block closes  *)
(* the dataset.                                                            *)
ReadRaster ==
    /\ pc = "opened"
    /\ BandsSufficient(count)
    /\ \E ras \in Rasters :
          LET r == [p \in Pix |-> ras[p][1]]
              g == [p \in Pix |-> ras[p][2]]
              b == [p \in Pix |-> ras[p][3]]
          IN  rgb' = dstack(normalize_rgb(r, g, b))
    /\ count' = 0
    /\ pc' = "preview"
    /\ UNCHANGED <<exists, debug_dir, thr, mask0, mask, morph, lines,
                   guidance, out_path, outFile, debugRgb, debugMask>>
    /\ UNCHANGED <<lvars, nvars, gvars>>

(* lines 168-182.                                                          *)
WritePreview ==
    /\ pc = "preview"
    /\ debugRgb' = debug_dir
    /\ pc' = "threshold"
    /\ UNCHANGED <<exists, count, debug_dir, rgb, thr, mask0, mask, morph, lines,
                   guidance, out_path, outFile, debugMask>>
    /\ UNCHANGED <<lvars, nvars, gvars>>

(* lines 185-190; the cleanup arguments are fixed from here on.            *)
Threshold ==
    /\ pc = "threshold"
    /\ \E t \in MainThresholdArgs :
          /\ thr' = t
          /\ mask' = threshold_blue_hsv(rgb, t)
    /\ mask0' = mask'
    /\ morph' \in MorphArgs
    /\ pc' = "min_size"
    /\ UNCHANGED <<exists, count, debug_dir, rgb, lines, guidance, out_path,
                   outFile, debugRgb, debugMask>>
    /\ UNCHANGED <<lvars, nvars, gvars>>

(* lines 193-194.                                                          *)
RemoveSmall ==
    /\ pc = "min_size"
    /\ mask' = MinSizeStep(mask, morph.min_size)
    /\ pc' = "open"
    /\ UNCHANGED <<exists, count, debug_dir, rgb, thr, mask0, morph, lines,
                   guidance, out_path, outFile, debugRgb, debugMask>>
    /\ UNCHANGED <<lvars, nvars, gvars>>

(* lines 195-196.                                                          *)
Opening ==
    /\ pc = "open"
    /\ mask' = OpenStep(mask, morph.open_r)
    /\ pc' = "close"
    /\ UNCHANGED <<exists, count, debug_dir, rgb, thr, mask0, morph, lines,
                   guidance, out_path, outFile, debugRgb, debugMask>>
    /\ UNCHANGED <<lvars, nvars, gvars>>

(* lines 197-198.                                                          *)
Closing ==
    /\ pc = "close"
    /\ mask' = CloseStep(mask, morph.close_r)
    /\ pc' = "save_mask"
    /\ UNCHANGED <<exists, count, debug_dir, rgb, thr, mask0, morph, lines,
                   guidance, out_path, outFile, debugRgb, debugMask>>
    /\ UNCHANGED <<lvars, nvars, gvars>>

(* lines 201-203.                                                          *)
WriteMask ==
    /\ pc = "save_mask"
    /\ debugMask' = debug_dir
    /\ pc' = "trace"
    /\ UNCHANGED <<exists, count, debug_dir, rgb, thr, mask0, mask, morph, lines,
                   guidance, out_path, outFile, debugRgb>>
    /\ UNCHANGED <<lvars, nvars, gvars>>

(* lines 206-212: no contour; the guidance is printed and save_geojson is  *)
(* called with [].  rgb, mask and the arguments read so far are not read   *)
(* again after line 206, and the model drops them here.                    *)
TraceNone ==
    /\ pc = "trace"
    /\ <<>> \in trace_contours(mask)
    /\ contours' = <<>>
    /\ guidance' = TRUE
    /\ lines' = <<>>
    /\ pc' = "save"
    /\ rgb' = NoImage /\ mask0' = NoImage /\ mask' = NoImage
    /\ thr' = UnsetThr /\ morph' = UnsetMorph
    /\ UNCHANGED <<exists, count, debug_dir, out_path, outFile, debugRgb,
                   debugMask>>
    /\ UNCHANGED <<tf, argStep, argTol, step, simplify_tol, idx, arr, line,
                   features, lstate>>
    /\ UNCHANGED <<nvars, gvars>>

(* lines 206-207: contours were traced.  Which ones is left open by        *)
(* trace_contours and is fixed where main first reads them, at line 216.   *)
TraceSome ==
    /\ pc = "trace"
    /\ trace_contours(mask) # {<<>>}
    /\ pc' = "reopen"
    /\ rgb' = NoImage /\ mask0' = NoImage /\ mask' = NoImage
    /\ thr' = UnsetThr /\ morph' = UnsetMorph
    /\ UNCHANGED <<exists, count, debug_dir, lines, guidance, out_path, outFile,
                   debugRgb, debugMask>>
    /\ UNCHANGED <<lvars, nvars, gvars>>

(* lines 215-216: the raster is opened again for its transform, and        *)
(* args.step and args.simplify are read.                                   *)
ReopenRaster ==
    /\ pc = "reopen"
    /\ contours' \in ListsOf(TracedContours, MaxContours) \ {<<>>}
    /\ tf' \in Transforms
    /\ argStep' \in Steps
    /\ argTol' \in SimplifyTols
    /\ pc' = "to_lines"
    /\ UNCHANGED <<exists, count, debug_dir, rgb, thr, mask0, mask, morph, lines,
                   guidance, out_path, outFile, debugRgb, debugMask>>
    /\ UNCHANGED <<step, simplify_tol, idx, arr, line, features, lstate>>
    /\ UNCHANGED <<nvars, gvars>>

(* line 216: to_lines returned.                                            *)
LinesReturned ==
    /\ pc = "to_lines"
    /\ lstate = "returned"
    /\ lines' = features
    /\ pc' = "save"
    /\ UNCHANGED <<exists, count, debug_dir, rgb, thr, mask0, mask, morph,
                   guidance, out_path, outFile, debugRgb, debugMask>>
    /\ UNCHANGED <<lvars, nvars, gvars>>

(* line 216: the exception raised in to_lines is not caught; main ends     *)
(* with a traceback.                                                       *)
LinesRaised ==
    /\ pc = "to_lines"
    /\ lstate = "raised"
    /\ pc' = "error_lines"
    /\ UNCHANGED <<exists, count, debug_dir, rgb, thr, mask0, mask, morph, lines,
                   guidance, out_path, outFile, debugRgb, debugMask>>
    /\ UNCHANGED <<lvars, nvars, gvars>>

(* save_geojson, lines 117-125.  os.path.dirname of a bare file name is    *)
(* '' and os.makedirs('') raises FileNotFoundError, before the file is     *)
(* opened.                                                                 *)
OutPaths == {"out.geojson", "out/lines.geojson"}
dirname(path) == IF path = "out/lines.geojson" THEN "out" ELSE ""
MakedirsRaises(d) == d = ""

SaveRaises ==
    /\ pc = "save"
    /\ \E path \in OutPaths :
          /\ MakedirsRaises(dirname(path))
          /\ out_path' = path
    /\ pc' = "error_save"
    /\ UNCHANGED <<exists, count, debug_dir, rgb, thr, mask0, mask, morph, lines,
                   guidance, outFile, debugRgb, debugMask>>
    /\ UNCHANGED <<lvars, nvars, gvars>>

SaveWrites ==
    /\ pc = "save"
    /\ \E path \in OutPaths :
          /\ ~MakedirsRaises(dirname(path))
          /\ out_path' = path
    /\ outFile' = [written |-> TRUE, features |-> lines]
    /\ pc' = "done"
    /\ UNCHANGED <<exists, count, debug_dir, rgb, thr, mask0, mask, morph, lines,
                   guidance, debugRgb, debugMask>>
    /\ UNCHANGED <<lvars, nvars, gvars>>

MainIdle ==
    /\ count = 0
    /\ rgb = NoImage
    /\ thr = UnsetThr
    /\ mask0 = NoImage
    /\ mask = NoImage
    /\ morph = UnsetMorph
    /\ lines = <<>>
    /\ guidance = FALSE
    /\ out_path = ""
    /\ outFile = Absent
    /\ debugRgb = FALSE
    /\ debugMask = FALSE

LinesIdle ==
    /\ contours = <<>>
    /\ tf = NoTransform
    /\ argStep = 1
    /\ argTol = 0
    /\ step = 1
    /\ simplify_tol = 0
    /\ idx = 0
    /\ arr = <<>>
    /\ line = <<>>
    /\ features = <<>>
    /\ lstate = "idle"

NormIdle ==
    /\ band = <<>>
    /\ normed = NotNormed

\* pick_gcps_qt.py, line 39
DEFAULT_JSON == "gcps.json"

GcpIdle ==
    /\ gpc = "idle"
    /\ gcps = <<>>
    /\ out_json = DEFAULT_JSON
    /\ saved = FALSE
    /\ console = "none"

Init ==
    /\ pc = "start"
    /\ exists \in BOOLEAN
    /\ debug_dir \in BOOLEAN
    /\ MainIdle
    /\ LinesIdle
    /\ NormIdle
    /\ GcpIdle

\* to_lines' branch for a contour of fewer than 2 vertices (SkipShort) cannot
\* be taken on what find_contours returns; SpecLines covers it
Next ==
    \/ ExitNotFound
    \/ OpenRaster
    \/ ExitTooFewBands
    \/ ReadRaster
    \/ WritePreview
    \/ Threshold
    \/ RemoveSmall
    \/ Opening
    \/ Closing
    \/ WriteMask
    \/ TraceNone
    \/ TraceSome
    \/ ReopenRaster
    \/ CallFromMain
    \/ LineRaises
    \/ AppendLine
    \/ DropLine
    \/ ReturnFeatures
    \/ LinesReturned
    \/ LinesRaised
    \/ SaveRaises
    \/ SaveWrites

Spec == Init /\ [][Next]_vars

----------------------------------------------------------------------------
(* threshold_blue_hsv called on an image of one pixel.                     *)
Levels == -1..(MaxLevel + 1)

ThresholdCall ==
    /\ pc = "threshold"
    /\ mask' = threshold_blue_hsv(rgb, thr)
    /\ mask0' = mask'
    /\ pc' = "thresholded"
    /\ UNCHANGED <<exists, count, debug_dir, rgb, thr, morph, lines, guidance,
                   out_path, outFile, debugRgb, debugMask>>
    /\ UNCHANGED <<lvars, nvars, gvars>>

InitThreshold ==
    /\ pc = "threshold"
    /\ exists = TRUE
    /\ debug_dir = FALSE
    /\ count = 0
    /\ \E r, g, b \in Levels :
          rgb = [p \in {<<1, 1>>} |-> [r |-> r, g |-> g, b |-> b, den |-> MaxLevel]]
    /\ thr \in ThresholdArgs
    /\ mask0 = NoImage
    /\ mask = NoImage
    /\ morph = UnsetMorph
    /\ lines = <<>>
    /\ guidance = FALSE
    /\ out_path = ""
    /\ outFile = Absent
    /\ debugRgb = FALSE
    /\ debugMask = FALSE
    /\ LinesIdle
    /\ NormIdle
    /\ GcpIdle

SpecThreshold == InitThreshold /\ [][ThresholdCall]_vars

----------------------------------------------------------------------------
(* _norm called on one band of raw samples.                                *)
SampleValues == {-1, 0, 1, 2, 255, 256, 300}

NormCall ==
    /\ ~normed.done
    /\ normed' = [done |-> TRUE, num |-> norm(band).num, den |-> norm(band).den]
    /\ UNCHANGED <<band, lvars, mvars, gvars>>

InitNorm ==
    /\ band \in UNION {[1..n -> SampleValues] : n \in 1..MaxBandLen}
    /\ normed = NotNormed
    /\ pc = "norm"
    /\ exists = TRUE
    /\ debug_dir = FALSE
    /\ MainIdle
    /\ LinesIdle
    /\ GcpIdle

SpecNorm == InitNorm /\ [][NormCall]_vars

----------------------------------------------------------------------------
(* to_lines called on a list of contours, directly or as main calls it.    *)
InitLines ==
    /\ contours \in ListsOf(AnyContours, MaxContours)
    /\ tf \in Transforms
    /\ argStep \in Steps
    /\ argTol \in SimplifyTols
    /\ step = 1
    /\ simplify_tol = 0
    /\ idx = 0
    /\ arr = <<>>
    /\ line = <<>>
    /\ features = <<>>
    /\ lstate = "idle"
    /\ pc = "to_lines"
    /\ exists = TRUE
    /\ debug_dir = FALSE
    /\ MainIdle
    /\ NormIdle
    /\ GcpIdle

NextLines ==
    \/ CallDirect
    \/ CallFromMain
    \/ SkipShort
    \/ LineRaises
    \/ AppendLine
    \/ DropLine
    \/ ReturnFeatures

SpecLines == InitLines /\ [][NextLines]_vars

----------------------------------------------------------------------------
(* scripts/pick_gcps_qt.py: the interactive GCP editor.                    *)
(*                                                                         *)
(* Units.  Pixel coordinates are the floats matplotlib reports; the model  *)
(* stores them in QUARTER pixels, so that offsets of 0.25, 0.5 and 0.75 px *)
(* around the 0.5 px guard of onclick are exact: a stored 2 is 0.5 px.     *)
MaxPixel == 2
MaxGcps == 2

\* the 0.5 of line 165, in quarter pixels
HalfPixel == 2

\* <<col, row>> of the mouse and of the GCPs of a file: columns a quarter
\* pixel apart, on two rows exactly half a pixel apart
Pixels == (0..MaxPixel) \X {0, HalfPixel}
LonLats == {<<113, 34>>, <<114, 35>>}
JsonPaths == {DEFAULT_JSON, "other.json"}

Gcp(p, ll) == [pixel |-> p, lonlat |-> ll]

(* The entries of a gcps.json found in the working directory: a record     *)
(* with both keys and numeric values ("gcp"), a record lacking one of the  *)
(* keys ("nokeys", skipped by line 130), and an entry on which line 130 or *)
(* a float() of lines 131-132 raises ("bad").  A file that is not JSON at  *)
(* all raises before the first entry, as a list starting with "bad" does.  *)
FileRecords ==
    {[kind |-> "gcp", pixel |-> p, lonlat |-> ll] : p \in Pixels, ll \in LonLats}
    \cup {[kind |-> k, pixel |-> <<0, 0>>, lonlat |-> <<0, 0>>] : k \in {"nokeys", "bad"}}

FileContents == UNION {[1..n -> FileRecords] : n \in 0..MaxGcps}

RECURSIVE LoadFrom(_, _, _)
\* lines 129-135: the loop appends to gcps itself, so what was appended
\* before an entry raises stays in the list
LoadFrom(loaded, i, acc) ==
    IF i > Len(loaded) THEN [gcps |-> acc, raised |-> FALSE]
    ELSE IF loaded[i].kind = "bad" THEN [gcps |-> acc, raised |-> TRUE]
    ELSE IF loaded[i].kind = "gcp"
         THEN LoadFrom(loaded, i + 1,
                       Append(acc, Gcp(loaded[i].pixel, loaded[i].lonlat)))
         ELSE LoadFrom(loaded, i + 1, acc)

\* line 165: any(abs(col-g["pixel"][0])<0.5 and abs(row-g["pixel"][1])<0.5 ...)
NearExistingMut(list, col, row) ==
    \E i \in 1..Len(list) :
        /\ col = list[i].pixel[1]
        /\ row = list[i].pixel[2]
NearExisting(list, col, row) ==
    \E i \in 1..Len(list) :
        /\ Abs(col - list[i].pixel[1]) < HalfPixel
        /\ Abs(row - list[i].pixel[2]) < HalfPixel

\* lines 103-110: the first index at the least squared distance
nearest_index(list, x, y) ==
    LET d(i) == Sq(list[i].pixel[1] - x) + Sq(list[i].pixel[2] - y)
    IN  CHOOSE i \in 1..Len(list) :
            /\ \A m \in 1..Len(list) : d(i) <= d(m)
            /\ \A m \in 1..(i - 1) : d(m) > d(i)

\* list.pop(i), i counted from 1
Pop(list, i) == [j \in 1..(Len(list) - 1) |-> IF j < i THEN list[j] ELSE list[j + 1]]

\* lines 116-118
PickerExitNoImage ==
    /\ gpc = "start"
    /\ gpc' = "exited"
    /\ console' = "no_image"
    /\ UNCHANGED <<gcps, out_json, saved>>
    /\ UNCHANGED <<lvars, mvars, nvars>>

\* lines 119-123
PickerReadImage ==
    /\ gpc = "start"
    /\ gpc' = "autoload"
    /\ gcps' = <<>>
    /\ out_json' = DEFAULT_JSON
    /\ UNCHANGED <<saved, console>>
    /\ UNCHANGED <<lvars, mvars, nvars>>

\* line 126 false: no gcps.json in the working directory
AutoLoadAbsent ==
    /\ gpc = "autoload"
    /\ gpc' = "show"
    /\ UNCHANGED <<gcps, out_json, saved, console>>
    /\ UNCHANGED <<lvars, mvars, nvars>>

\* lines 126-135
AutoLoad ==
    /\ gpc = "autoload"
    /\ \E loaded \in FileContents :
          LET r == LoadFrom(loaded, 1, gcps)
          IN  /\ gcps' = r.gcps
              /\ console' = IF r.raised THEN "could_not_load" ELSE "loaded"
    /\ gpc' = "show"
    /\ UNCHANGED <<out_json, saved>>
    /\ UNCHANGED <<lvars, mvars, nvars>>

\* lines 160-161: outside the axes (xdata is None there) or not the left button
onclick_ignored ==
    /\ gpc = "show"
    /\ \E inaxes \in BOOLEAN, button \in {1, 3} : ~inaxes \/ button # 1
    /\ UNCHANGED gvars
    /\ UNCHANGED <<lvars, mvars, nvars>>

\* lines 162-167
onclick_duplicate ==
    /\ gpc = "show"
    /\ \E p \in Pixels : NearExisting(gcps, p[1], p[2])
    /\ console' = "skipped"
    /\ UNCHANGED <<gpc, gcps, out_json, saved>>
    /\ UNCHANGED <<lvars, mvars, nvars>>

\* lines 162-170: the lon/lat dialog is cancelled
onclick_cancelled ==
    /\ gpc = "show"
    /\ \E p \in Pixels : ~NearExisting(gcps, p[1], p[2])
    /\ UNCHANGED gvars
    /\ UNCHANGED <<lvars, mvars, nvars>>

\* lines 162-175
onclick_add ==
    /\ gpc = "show"
    /\ Len(gcps) < MaxGcps
    /\ \E p \in Pixels, ans \in LonLats :
          /\ ~NearExisting(gcps, p[1], p[2])
          /\ gcps' = Append(gcps, Gcp(p, ans))
    /\ console' = "added"
    /\ UNCHANGED <<gpc, out_json, saved>>
    /\ UNCHANGED <<lvars, mvars, nvars>>

\* lines 179-183
onkey_U ==
    /\ gpc = "show"
    /\ IF gcps # <<>>
       THEN /\ gcps' = Pop(gcps, Len(gcps))
            /\ console' = "undo"
       ELSE UNCHANGED <<gcps, console>>
    /\ UNCHANGED <<gpc, out_json, saved>>
    /\ UNCHANGED <<lvars, mvars, nvars>>

\* lines 184-194; the mouse is over the axes at p, or outside them
onkey_D ==
    /\ gpc = "show"
    /\ \E inaxes \in BOOLEAN, p \in Pixels :
          IF gcps = <<>> THEN UNCHANGED <<gcps, console>>
          ELSE IF ~inaxes
               THEN /\ console' = "move_mouse"
                    /\ UNCHANGED gcps
               ELSE /\ gcps' = Pop(gcps, nearest_index(gcps, p[1], p[2]))
                    /\ console' = "deleted"
    /\ UNCHANGED <<gpc, out_json, saved>>
    /\ UNCHANGED <<lvars, mvars, nvars>>

\* lines 195-207; ans is what ask_lon_lat returns, None when cancelled
onkey_E ==
    /\ gpc = "show"
    /\ \E inaxes \in BOOLEAN, p \in Pixels, ans \in LonLats \cup {<<>>} :
          IF gcps = <<>> THEN UNCHANGED <<gcps, console>>
          ELSE IF ~inaxes
               THEN /\ console' = "move_mouse"
                    /\ UNCHANGED gcps
               ELSE IF ans = <<>> THEN UNCHANGED <<gcps, console>>
               ELSE LET i == nearest_index(gcps, p[1], p[2])
                    IN  /\ gcps' = [gcps EXCEPT ![i].lonlat = ans]
                        /\ console' = "edited"
    /\ UNCHANGED <<gpc, out_json, saved>>
    /\ UNCHANGED <<lvars, mvars, nvars>>

\* lines 208-212
onkey_S ==
    /\ gpc = "show"
    /\ saved' = TRUE
    /\ console' = "saved"
    /\ UNCHANGED <<gpc, gcps, out_json>>
    /\ UNCHANGED <<lvars, mvars, nvars>>

\* lines 213-220; path is what save_as_dialog returns, None when cancelled
onkey_A ==
    /\ gpc = "show"
    /\ \E path \in JsonPaths \cup {""} :
          IF path # ""
          THEN /\ out_json' = path
               /\ saved' = TRUE
               /\ console' = "saved"
          ELSE UNCHANGED <<out_json, saved, console>>
    /\ UNCHANGED <<gpc, gcps>>
    /\ UNCHANGED <<lvars, mvars, nvars>>

\* lines 221-223
onkey_Q ==
    /\ gpc = "show"
    /\ \E yes \in BOOLEAN : gpc' = IF yes THEN "closed" ELSE "show"
    /\ UNCHANGED <<gcps, out_json, saved, console>>
    /\ UNCHANGED <<lvars, mvars, nvars>>

InitGcp ==
    /\ gpc = "start"
    /\ gcps = <<>>
    /\ out_json = DEFAULT_JSON
    /\ saved = FALSE
    /\ console = "none"
    /\ pc = "pick_gcps"
    /\ exists = TRUE
    /\ debug_dir = FALSE
    /\ MainIdle
    /\ LinesIdle
    /\ NormIdle

NextGcp ==
    \/ PickerExitNoImage
    \/ PickerReadImage
    \/ AutoLoadAbsent
    \/ AutoLoad
    \/ onclick_ignored
    \/ onclick_duplicate
    \/ onclick_cancelled
    \/ onclick_add
    \/ onkey_U
    \/ onkey_D
    \/ onkey_E
    \/ onkey_S
    \/ onkey_A
    \/ onkey_Q

SpecGcp == InitGcp /\ [][NextGcp]_vars

----------------------------------------------------------------------------
(* Properties of to_lines.                                                 *)

\* the loop has consumed at least one contour, and the last one consumed
\* had the 2 vertices that let it past line 103
Thinned == lstate # "idle" /\ idx >= 1 /\ Len(contours[idx]) >= 2
LastSrc == contours[idx]

\* the lines among cand that line 112 keeps, in order
KeptOf(cand) ==
    SelectSeq(cand, LAMBDA l : Len(l) >= 2 /\ \E i, j \in 1..Len(l) : l[i] # l[j])

(* C1, as the claim states it: for every contour of N >= 2 vertices and    *)
(* every step k >= 1 the thinning keeps both the original first vertex and *)
(* the original last vertex.                                               *)
C1_KeepsFirstAndLast ==
    Thinned => /\ Len(arr) >= 1
               /\ arr[1] = LastSrc[1]
               /\ arr[Len(arr)] = LastSrc[Len(LastSrc)]

(* C1, amended: the thinning keeps exactly the vertices at the positions   *)
(* 0, k, 2k, ... of the contour, k = max(1, step), in order: ceil(N/k) of  *)
(* them.  The first vertex is always kept; the last vertex is kept when    *)
(* N-1 is a multiple of k, and otherwise the kept vertex of highest        *)
(* position is an earlier one.                                             *)
C1_KeepsEveryKth ==
    Thinned =>
        LET N == Len(LastSrc)
            k == IF step >= 1 THEN step ELSE 1
            m == (N + k - 1) \div k
        IN  /\ Len(arr) = m
            /\ \A j \in 1..m : arr[j] = LastSrc[(j - 1) * k + 1]
            /\ arr[1] = LastSrc[1]
            /\ (N - 1) % k = 0 => arr[m] = LastSrc[N]
            /\ (N - 1) % k # 0 => (m - 1) * k + 1 < N

\* a contour whose last vertex the stride misses was thinned and its line kept
C1_Witness ==
    /\ Thinned
    /\ lstate = "loop"
    /\ step >= 2
    /\ (Len(LastSrc) - 1) % step # 0
    /\ Len(arr) >= 2
    /\ arr[Len(arr)] # LastSrc[Len(LastSrc)]
    /\ Len(features) >= 1

(* C2, as the claim states it: to_lines never aborts because of a contour  *)
(* or polyline of fewer than 2 vertices, and every polyline of the         *)
(* returned list has at least 2 coordinates.                               *)
C2_NeverAborts ==
    /\ lstate # "raised"
    /\ lstate = "returned" => \A i \in 1..Len(features) : Len(features[i]) >= 2

(* C9: with simplification off, the returned polylines are, in contour     *)
(* order, the kept contours' thinned vertices, each (row, col) mapped to   *)
(* (a*(col+0.5) + b*(row+0.5) + c, d*(col+0.5) + e*(row+0.5) + f), as many *)
(* vertices as the thinned contour and in its order.                       *)
C9_Point(v) ==
    << tf.a * (v[2] + 1) + tf.b * (v[1] + 1) + 2 * tf.c,
       tf.d * (v[2] + 1) + tf.e * (v[1] + 1) + 2 * tf.f >>

C9_AffineAtPixelCentre ==
    (lstate \in {"loop", "returned"} /\ simplify_tol <= 0) =>
        LET th(i) == SliceStep(contours[i], IF step >= 1 THEN step ELSE 1)
            cand  == [i \in 1..idx |->
                        IF Len(contours[i]) < 2 THEN <<>>
                        ELSE [j \in 1..Len(th(i)) |-> C9_Point(th(i)[j])]]
        IN  /\ features = KeptOf(cand)
            /\ (Thinned /\ features # <<>> /\ line = features[Len(features)]
                    /\ Len(line) = Len(arr))
                 => \A j \in 1..Len(arr) : line[j] = C9_Point(arr[j])

\* two thinned contours were mapped through the rotated transform
C9_Witness ==
    /\ lstate = "returned"
    /\ simplify_tol <= 0
    /\ step >= 2
    /\ tf.b # 0
    /\ Len(features) = 2
    /\ Len(features[1]) >= 3

(* C10: a step < 1 or a negative tolerance is not rejected, and the output *)
(* is the output for step = 1, respectively for tolerance 0 (no            *)
(* simplification), through main's call and through a direct call.         *)
C10_Reference(k, tol) ==
    KeptOf([i \in 1..idx |->
              IF Len(contours[i]) < 2 THEN <<>>
              ELSE LET built == MapXY(tf, SliceStep(contours[i], k))
                   IN  IF tol > 0 THEN SimplifyLine(built, tol) ELSE built])

C10_ClampedNotRejected ==
    lstate # "idle" =>
        /\ argStep < 1 =>
              /\ lstate # "raised"
              /\ features = C10_Reference(1, simplify_tol)
        /\ (argTol < 0 /\ lstate # "raised") =>
              features = C10_Reference(IF step >= 1 THEN step ELSE 1, 0)
        /\ (argStep < 1 /\ argTol < 0) =>
              features = KeptOf([i \in 1..idx |->
                           IF Len(contours[i]) < 2 THEN <<>>
                           ELSE MapXY(tf, contours[i])])

\* a direct call with step < 1 and a negative tolerance returned a line
C10_Witness ==
    /\ lstate = "returned"
    /\ argStep < 1 /\ step = argStep
    /\ argTol < 0 /\ simplify_tol = argTol
    /\ Len(features) >= 1
    /\ Len(features[1]) >= MaxVerts

----------------------------------------------------------------------------
(* Properties of main.                                                     *)

NothingWritten == outFile = Absent /\ ~debugRgb /\ ~debugMask

(* C3, as the claim states it: a run that ends with an empty final         *)
(* polyline list, because tracing returned no contour or because to_lines  *)
(* dropped every contour, completes normally, has written a feature        *)
(* collection of zero features, and has emitted the guidance.              *)
C3_EmptyResultCompletes ==
    (pc \in {"done", "error_save"} /\ lines = <<>>) =>
        /\ pc = "done"
        /\ outFile = [written |-> TRUE, features |-> <<>>]
        /\ guidance

(* C6: a missing raster, or one of fewer than 3 bands, ends the run with   *)
(* the fatal exit as main's next step, nothing having been thresholded,    *)
(* traced or written; and no step follows the exit.                        *)
C6_Untouched ==
    /\ NothingWritten
    /\ rgb = NoImage /\ mask = NoImage /\ contours = <<>>

C6_Inv ==
    /\ ~exists => (pc \in {"start", "exit"} /\ C6_Untouched)
    /\ (pc = "opened" /\ count < 3) => C6_Untouched
    /\ pc = "exit" => C6_Untouched

C6_Step ==
    /\ (~exists \/ (pc = "opened" /\ count < 3)) => pc' = "exit"
    /\ pc = "exit" => FALSE

C6_FatalInputError == []C6_Inv /\ [][C6_Step]_vars

\* a 2-band raster ended the run although debug output was asked for
C6_Witness ==
    /\ pc = "exit"
    /\ exists
    /\ count = 2
    /\ debug_dir

(* C8: the cleanup is removal, then opening, then closing, each on the     *)
(* output of the one before; a sub-step whose parameter is 0 hands the     *)
(* mask on as it received it; with all three at 0 the traced mask is the   *)
(* thresholded mask.                                                       *)
C8_AfterRemoval ==
    IF morph.min_size = 0 THEN mask0
    ELSE remove_small_objects(mask0, morph.min_size)
C8_AfterOpening ==
    IF morph.open_r = 0 THEN C8_AfterRemoval
    ELSE binary_dilation(binary_erosion(C8_AfterRemoval, morph.open_r), morph.open_r)
C8_AfterClosing ==
    IF morph.close_r = 0 THEN C8_AfterOpening
    ELSE binary_erosion(binary_dilation(C8_AfterOpening, morph.close_r), morph.close_r)

C8_CleanupOrder ==
    /\ pc = "min_size" => mask = mask0
    /\ pc = "open" => mask = C8_AfterRemoval
    /\ pc = "close" => mask = C8_AfterOpening
    /\ pc \in {"save_mask", "trace"} => mask = C8_AfterClosing
    /\ (pc = "trace" /\ morph = [min_size |-> 0, open_r |-> 0, close_r |-> 0])
          => mask = mask0

\* all three sub-steps ran on a mask that survived the removal and the
\* opening, and the closing changed it
C8_Witness ==
    /\ pc = "trace"
    /\ morph.min_size > 0 /\ morph.open_r > 0 /\ morph.close_r > 0
    /\ \E p \in DOMAIN mask0 : C8_AfterOpening[p] = 1
    /\ mask # C8_AfterOpening
    /\ mask # mask0

(* C4: small-object removal and the connectivity of its components.        *)
\* p and q touch: by an edge (conn = 1), or by an edge or a corner (conn = 2)
C4_Touch(p, q, conn) ==
    LET dr == IF p[1] >= q[1] THEN p[1] - q[1] ELSE q[1] - p[1]
        dc == IF p[2] >= q[2] THEN p[2] - q[2] ELSE q[2] - p[2]
    IN  p # q /\ dr <= 1 /\ dc <= 1 /\ dr + dc <= conn

RECURSIVE C4_Comp(_, _, _)
C4_Comp(fg, S, conn) ==
    LET T == S \cup {q \in fg : \E p \in S : C4_Touch(p, q, conn)}
    IN  IF T = S THEN S ELSE C4_Comp(fg, T, conn)

\* mask0 with exactly the pixels of components smaller than min_size cleared
C4_Cleared(conn) ==
    LET fg == {p \in DOMAIN mask0 : mask0[p] = 1}
    IN  [p \in DOMAIN mask0 |->
            IF mask0[p] = 1 /\ Cardinality(C4_Comp(fg, {p}, conn)) < morph.min_size
            THEN 0 ELSE mask0[p]]

(* C4, as the claim states it: with min_size > 0 the removal clears        *)
(* exactly the foreground pixels of the 8-connected components (edge or    *)
(* corner contact) of fewer than min_size pixels.                          *)
C4_EightConnected ==
    (pc = "open" /\ morph.min_size > 0) => mask = C4_Cleared(2)

(* C4, amended: with min_size > 0 the removal clears exactly the           *)
(* foreground pixels of the 4-connected components (pixels touching by an  *)
(* edge; a corner contact does not join two groups) of fewer than min_size *)
(* pixels, and leaves every other pixel unchanged; two groups that touch   *)
(* only by a corner are each measured alone, so both are cleared when each *)
(* is smaller than min_size, whatever their combined size.                 *)
C4_FourConnected ==
    (pc = "open" /\ morph.min_size > 0) => mask = C4_Cleared(1)

\* two pixels touching by a corner, min_size 2: both were cleared
C4_Witness ==
    /\ pc = "open"
    /\ morph.min_size = 2
    /\ {p \in DOMAIN mask0 : mask0[p] = 1} = {<<1, 1>>, <<2, 2>>}
    /\ \A p \in DOMAIN mask : mask[p] = 0

----------------------------------------------------------------------------
(* Properties of threshold_blue_hsv.                                       *)

(* C5: the mask bit of a pixel is 1 exactly when S >= s_min, V >= v_min    *)
(* and the hue is in range: h_min <= H <= h_max when h_min <= h_max, and   *)
(* H >= h_min or H <= h_max when h_min > h_max; with h_min = 0.9 and       *)
(* h_max = 0.1, H = 0.95 and H = 0.05 are in range and H = 0.5 is not.     *)
C5_HueWraparound ==
    pc = "thresholded" =>
        \A p \in DOMAIN rgb :
            LET c == rgb2hsv(rgb[p])
                H == c.h
                hueIn ==
                    IF thr.h_min[1] * thr.h_max[2] <= thr.h_max[1] * thr.h_min[2]
                    THEN /\ H[1] * thr.h_min[2] >= thr.h_min[1] * H[2]
                         /\ H[1] * thr.h_max[2] <= thr.h_max[1] * H[2]
                    ELSE \/ H[1] * thr.h_min[2] >= thr.h_min[1] * H[2]
                         \/ H[1] * thr.h_max[2] <= thr.h_max[1] * H[2]
                satIn == c.s[1] * thr.s_min[2] >= thr.s_min[1] * c.s[2]
                valIn == c.v[1] * thr.v_min[2] >= thr.v_min[1] * c.v[2]
            IN  /\ mask[p] \in {0, 1}
                /\ mask[p] = 1 <=> (satIn /\ valIn /\ hueIn)
                /\ (thr.h_min = <<9, 10>> /\ thr.h_max = <<1, 10>> /\ satIn /\ valIn) =>
                      /\ 20 * H[1] = 19 * H[2] => mask[p] = 1
                      /\ 20 * H[1] = 1 * H[2] => mask[p] = 1
                      /\ 2 * H[1] = 1 * H[2] => mask[p] = 0

\* h_min = 0.9, h_max = 0.1 and a pixel of hue 0.95 is in the mask
C5_Witness ==
    /\ pc = "thresholded"
    /\ thr.h_min = <<9, 10>> /\ thr.h_max = <<1, 10>>
    /\ LET H == rgb2hsv(rgb[<<1, 1>>]).h IN 20 * H[1] = 19 * H[2]
    /\ mask[<<1, 1>>] = 1

----------------------------------------------------------------------------
(* Properties of normalize_rgb.                                            *)

(* C7, as the claim states it: the divisor depends on the band's maximum   *)
(* only (maximum <= 1, or all zero: the band as it is; maximum <= 255:     *)
(* 255; otherwise the maximum), and every sample of the returned band lies *)
(* in [0, 1].                                                              *)
C7_NormalizedRange ==
    normed.done =>
        LET mx == BandMax(band)
        IN  /\ normed.num = band
            /\ normed.den = (IF mx <= 1 THEN 1 ELSE IF mx <= 255 THEN 255 ELSE mx)
            /\ \A i \in DOMAIN band :
                  0 <= normed.num[i] /\ normed.num[i] <= normed.den

----------------------------------------------------------------------------
(* Properties of the GCP editor.                                           *)

\* two GCPs less than half a pixel apart in both pixel axes (coordinates in
\* quarter pixels: d/4 < 1/2)
C11_Close(g, h) ==
    /\ 2 * Abs(g.pixel[1] - h.pixel[1]) < 4
    /\ 2 * Abs(g.pixel[2] - h.pixel[2]) < 4

C11_ClosePairs(list) ==
    {ij \in (1..Len(list)) \X (1..Len(list)) :
        ij[1] < ij[2] /\ C11_Close(list[ij[1]], list[ij[2]])}

(* C11, as the claim states it: at every point of a GCP editor session no  *)
(* two GCPs of the list lie within 0.5 px of each other in both pixel      *)
(* axes, whatever sequence of auto-load, click, U, D and E led there.      *)
C11_NoClosePair == C11_ClosePairs(gcps) = {}

(* C11, amended: once the event loop runs, no click or key adds a close    *)
(* pair.  The list grows only by one GCP appended at its end, and that GCP *)
(* is not within 0.5 px in both axes of any GCP already in the list; a     *)
(* click reported as a duplicate leaves the list as it was; the number of  *)
(* close pairs never grows, so a session whose auto-load brought in none   *)
(* never has one.  The auto-load itself appends the file's entries as      *)
(* they are.                                                               *)
C11_Step ==
    gpc = "show" =>
        /\ Cardinality(C11_ClosePairs(gcps')) <= Cardinality(C11_ClosePairs(gcps))
        /\ Len(gcps') > Len(gcps) =>
              /\ gcps' = Append(gcps, gcps'[Len(gcps')])
              /\ \A i \in 1..Len(gcps) : ~C11_Close(gcps[i], gcps'[Len(gcps')])
        /\ console' = "skipped" => gcps' = gcps

C11_ClicksAddNoClosePair == [][C11_Step]_vars

\* a duplicate click has just been refused on a list of at least two GCPs,
\* none of them close to another
C11_Witness ==
    /\ gpc = "show"
    /\ console = "skipped"
    /\ Len(gcps) >= 2
    /\ C11_ClosePairs(gcps) = {}

=============================================================================
